---- MODULE Spec2Model ----
(***************************************************************************)
(* Parlor web client: the search orchestrator (App.handleSearch), the      *)
(* search form (SearchComponent), the geolocation provider                 *)
(* (LocationService) and the results presenter (ResultsComponent).         *)
(*                                                                         *)
(* Execution is a single event loop: every action below is one handler or  *)
(* callback run to completion, with the synchronous calls it makes.        *)
(* Restaurant objects live in a heap (photoUrl, aiSummary, and the state   *)
(* of the two enrichment tasks that close over each object); arrays hold   *)
(* references (heap indices), as in the JavaScript.                        *)
(***************************************************************************)
EXTENDS Integers, Sequences, FiniteSets, TLC

(* ---------------------------- bounds ----------------------------------- *)
\* HTTP requests the orchestrator dispatches in one behaviour: one per call of
\* handleSearch (the recommendation fetch) and one per result (its summary)
MaxRequests == 3
\* the longest text typed into the address input
MaxLen == 4
\* autocomplete requests dispatched in one behaviour
MaxFetches == 3
\* the longest prediction list the backend returns
MaxPredictions == 2
\* clicks on the search triggers in one behaviour
MaxActs == 3

(* --------------------------- constants --------------------------------- *)
\* a nullable field holds Null or Some(value)
Null == << >>
Some(x) == << x >>
NoAlert == "none"
NoDetail == "undefined"

\* main.ts:216, 225, 265, 274 and the rotation of startMessageCycle
MsgFinding == "Finding the perfect pizza spots..."
MsgGathering == "Gathering photos and getting AI summaries..."
MsgFinalizing == "Finalizing your personalized menu..."
MsgAlmost == "Almost ready..."
messages ==
    << "Finding the perfect pizza spots...",
       "Analyzing recent reviews...",
       "Comparing crust thickness...",
       "Measuring cheese stretch..." >>
MsgFallback == "Unable to fetch recommendations. Please try again."

\* fetchPredictions: query.length < 3
MinQueryLength == 3
\* the keys of the keyboard
Alphabet == { "a" }
MsgAuthFailure == "Error: Enable \"Places API\" (Legacy) in Google Cloud Console. You likely only have \"Places API (New)\" enabled."

\* the street suffixes that tell the predictions of one answer apart
Suffixes == << " St", " Ave", " Blvd", " Rd" >>

\* preferences: this.preferences in a SearchRequest is a reference to the one
\* preferences object of the SearchComponent, never a copy of it
ThisPreferences == "this.preferences"

\* the requests the children emit in the orchestrator's own specification
SampleRequests ==
    { [ address |-> "Current Location", latitude |-> Some(10), longitude |-> Some(20),
        preferences |-> ThisPreferences ],
      [ address |-> "1 Main St", latitude |-> Some(40), longitude |-> Some(-74),
        preferences |-> ThisPreferences ] }

\* error objects of a failed recommendation fetch: error.error?.detail
ErrorDetails == { NoDetail, "", "No pizza places found nearby" }

VARIABLES
    started,            \* App.started
    restaurants,        \* App.restaurants: references to Restaurant objects
    lastSearchRequest,  \* App.lastSearchRequest
    loading,            \* App.loading
    loadingMessage,     \* App.loadingMessage
    search,             \* one record per call of handleSearch: its closure, and
                        \* the request body (req) while the fetch is in flight
    photoUrl,           \* heap: Restaurant.photoUrl is set
    aiSummary,          \* heap: Restaurant.aiSummary
    sumTask,            \* heap: the summary task closing over the object
    imgTask,            \* heap: the image probe closing over the object
    lastError,          \* error.error?.detail of the last failed recommendation fetch
    lastAlert           \* the text of the last alert() shown

appVars ==
    << started, restaurants, lastSearchRequest, loading, loadingMessage,
       search, photoUrl, aiSummary, sumTask, imgTask, lastError, lastAlert >>

VARIABLES
    address,                \* SearchComponent.address (ngModel of the input)
    keyed,                  \* the value of the last (input) event
    debPending,             \* debounceTime(300): the value waiting for the quiet period
    lastDistinct,           \* distinctUntilChanged: the last value let through
    lastQuery,              \* the argument of the last call of fetchPredictions
    callParity,             \* flips at every call of fetchPredictions
    acReqs,                 \* autocomplete requests in flight
    nFetch,                 \* autocomplete requests dispatched so far
    predictions,            \* SearchComponent.predictions
    showPredictions,        \* SearchComponent.showPredictions
    activePredictionIndex,  \* SearchComponent.activePredictionIndex
    errorMessage,           \* SearchComponent.errorMessage
    authFailed,             \* gm_authFailure has been called
    sessionToken,           \* SearchComponent.sessionToken (0: null)
    lastOutcome,            \* the callback the last autocomplete completion ran
    lastKey,                \* event.key of the last keydown on the input
    keyParity               \* flips at every call of onKeydown

acVars ==
    << address, keyed, debPending, lastDistinct, lastQuery, callParity, acReqs, nFetch,
       predictions, showPredictions, activePredictionIndex, errorMessage,
       authFailed, sessionToken, lastOutcome, lastKey, keyParity >>

VARIABLES
    scLoading,      \* SearchComponent.loading
    selectedPlace,  \* SearchComponent.selectedPlace
    placeReqs,      \* place-details requests in flight
    geocodeReqs,    \* geocoding requests in flight
    unlockTimers,   \* pending setTimeout(1000) callbacks of performSearch
    geolocation,    \* navigator.geolocation exists
    locReqs,        \* subscriptions of LocationService.getCurrentPosition, by attempt
    rLoading,       \* ResultsComponent.loading
    rerollTimers,   \* pending setTimeout(2000) callbacks of rerollRecommendations
    acts            \* clicks on the triggers and on the results so far

VARIABLES
    maxDistance,         \* SearchComponent.preferences.maxDistance
    validations,         \* flips at every call of validateDistance
    selectedRestaurant,  \* ResultsComponent.selectedRestaurant
    rAiSummary,          \* ResultsComponent.aiSummary
    loadingSummary,      \* ResultsComponent.loadingSummary
    summaryReqs,         \* the getAISummary requests of loadAISummary, in order
    selections,          \* flips at every call of selectRestaurant
    rerollClicks         \* flips at every call of rerollRecommendations

\* the preferences of the form and the detail view of the results
viewVars ==
    << maxDistance, validations, selectedRestaurant, rAiSummary, loadingSummary,
       summaryReqs, selections, rerollClicks >>

formVars ==
    << scLoading, selectedPlace, placeReqs, geocodeReqs, unlockTimers, geolocation,
       locReqs, rLoading, rerollTimers, acts, viewVars >>

\* everything outside the orchestrator
childVars == << acVars, formVars >>

vars == << appVars, childVars >>

(* ------------------------------ helpers -------------------------------- *)
Range(f) == { f[i] : i \in DOMAIN f }

Searches == DOMAIN search

Heap == DOMAIN photoUrl

Dispatched == Len(search) + Len(photoUrl)

\* the summary the backend returns for a restaurant (AIGeneratedSummary)
SummaryOf(r) == [restaurantId |-> r]

\* JavaScript truthiness of error.error?.detail
Truthy(d) == d # NoDetail /\ d # ""

\* 'Error: ' + (error.error?.detail || fallback)
AlertMessage(d) == "Error: " \o (IF Truthy(d) THEN d ELSE MsgFallback)

\* the search whose results array holds object r
Owner(r) == CHOOSE s \in Searches : r \in Range(search[s].results)

\* a join that fires on the first source to complete (race instead of forkJoin)
AnyComplete(res, st, it) ==
    \E i \in DOMAIN res : st[res[i]] # "pending" \/ it[res[i]] # "pending"

\* forkJoin: every source has emitted and completed
AllComplete(res, st, it) ==
    \A i \in DOMAIN res : st[res[i]] # "pending" /\ it[res[i]] # "pending"

(* ------------------------------- Init ---------------------------------- *)
AppInit ==
    /\ started = FALSE
    /\ restaurants = << >>
    /\ lastSearchRequest = Null
    /\ loading = FALSE
    /\ loadingMessage = MsgFinding
    /\ search = << >>
    /\ photoUrl = << >>
    /\ aiSummary = << >>
    /\ sumTask = << >>
    /\ imgTask = << >>
    /\ lastError = NoDetail
    /\ lastAlert = NoAlert

AcInit ==
    /\ address = ""
    /\ keyed = ""
    /\ debPending = Null
    /\ lastDistinct = Null
    /\ lastQuery = Null
    /\ callParity = 0
    /\ acReqs = { }
    /\ nFetch = 0
    /\ predictions = << >>
    /\ showPredictions = FALSE
    /\ activePredictionIndex = -1
    /\ errorMessage = ""
    /\ authFailed = FALSE
    /\ sessionToken = 0
    /\ lastOutcome = "none"
    /\ lastKey = Null
    /\ keyParity = 0

\* GeolocationPositionError.code
PERMISSION_DENIED == 1
GeoErrorCodes == { 1, 2, 3 }

\* the calls of navigator.geolocation.getCurrentPosition: the high-accuracy
\* attempt, and the low-accuracy attempt made inside the error callback of the
\* high-accuracy one, whose error stays in its closure
NoGeoError == 0
HighAccuracy == [ enableHighAccuracy |-> TRUE, after |-> NoGeoError ]
LowAccuracy(error) == [ enableHighAccuracy |-> FALSE, after |-> error ]
GeoAttempts == { HighAccuracy } \cup { LowAccuracy(code) : code \in GeoErrorCodes }

TriggerInit ==
    /\ scLoading = FALSE
    /\ selectedPlace = Null
    /\ placeReqs = { }
    /\ geocodeReqs = 0
    /\ unlockTimers = 0
    /\ locReqs = [ attempt \in GeoAttempts |-> 0 ]
    /\ rLoading = FALSE
    /\ rerollTimers = 0
    /\ acts = 0
    /\ maxDistance = Some(10)
    /\ validations = 0
    /\ selectedRestaurant = Null
    /\ rAiSummary = Null
    /\ loadingSummary = FALSE
    /\ summaryReqs = << >>
    /\ selections = 0
    /\ rerollClicks = 0

Init == AppInit /\ AcInit /\ TriggerInit /\ geolocation = TRUE

(* ------------------------------ App ------------------------------------ *)
\* the Start button of the landing page
Start ==
    /\ ~started
    /\ started' = TRUE
    /\ UNCHANGED << restaurants, lastSearchRequest, loading, loadingMessage,
                    search, photoUrl, aiSummary, sumTask, imgTask, lastError, lastAlert >>
    /\ UNCHANGED childVars

\* the body of handleSearch up to the dispatch of the recommendation fetch
handleSearch(req) ==
    /\ lastSearchRequest' = Some(req)
    /\ loading' = TRUE
    /\ loadingMessage' = MsgFinding
    /\ restaurants' = << >>
    /\ search' = Append(search,
          [ req |-> Some(req), rec |-> "pending", results |-> << >>,
            interval |-> TRUE, index |-> 0, join |-> "none" ])
    /\ UNCHANGED << started, photoUrl, aiSummary, sumTask, imgTask, lastError, lastAlert >>

\* (onSearch) / (onReroll) reaching the orchestrator
HandleSearch(req) ==
    /\ started
    /\ Dispatched < MaxRequests
    /\ handleSearch(req)
    /\ UNCHANGED childVars

\* the setInterval callback of startMessageCycle
IntervalTick(s) ==
    /\ search[s].interval
    /\ LET i == (search[s].index + 1) % Len(messages) IN
         /\ search' = [search EXCEPT ![s].index = i]
         /\ loadingMessage' =
              IF /\ loadingMessage # MsgGathering
                 /\ loadingMessage # MsgFinalizing
                 /\ loadingMessage # MsgAlmost
              THEN messages[i + 1]
              ELSE loadingMessage
    /\ UNCHANGED << started, restaurants, lastSearchRequest, loading,
                    photoUrl, aiSummary, sumTask, imgTask, lastError, lastAlert >>
    /\ UNCHANGED childVars

\* a next callback whose probes wait for an image load even without a photoUrl
RecommendationsNextProbesAll(s, photos) ==
    /\ search[s].rec = "pending"
    /\ Dispatched + Len(photos) <= MaxRequests
    /\ LET base == Len(photoUrl)
           n    == Len(photos)
           res  == [i \in 1..n |-> base + i]
       IN
         /\ photoUrl' = photoUrl \o photos
         /\ aiSummary' = aiSummary \o [i \in 1..n |-> Null]
         /\ sumTask' = sumTask \o [i \in 1..n |-> "pending"]
         /\ imgTask' = imgTask \o [i \in 1..n |-> "pending"]
         /\ search' = [search EXCEPT ![s].rec = "ok", ![s].req = Null,
                                     ![s].results = res,
                                     ![s].join = IF n = 0 THEN "empty" ELSE "waiting"]
    /\ loadingMessage' = MsgFinalizing
    /\ UNCHANGED << started, restaurants, lastSearchRequest, loading, lastError, lastAlert >>
    /\ UNCHANGED childVars

\* next of getPizzaRecommendations: n results, photos[i] says whether result i
\* has a photoUrl.  The summary requests are dispatched, the probes of the
\* results without a photo complete at subscription, and forkJoin subscribes.
RecommendationsNext(s, photos) ==
    /\ search[s].rec = "pending"
    /\ Dispatched + Len(photos) <= MaxRequests
    /\ LET base == Len(photoUrl)
           n    == Len(photos)
           res  == [i \in 1..n |-> base + i]
       IN
         /\ photoUrl' = photoUrl \o photos
         /\ aiSummary' = aiSummary \o [i \in 1..n |-> Null]
         /\ sumTask' = sumTask \o [i \in 1..n |-> "pending"]
         /\ imgTask' = imgTask \o [i \in 1..n |-> IF photos[i] THEN "pending" ELSE "true"]
         /\ search' = [search EXCEPT ![s].rec = "ok", ![s].req = Null,
                                     ![s].results = res,
                                     ![s].join = IF n = 0 THEN "empty" ELSE "waiting"]
    /\ loadingMessage' = MsgFinalizing
    /\ UNCHANGED << started, restaurants, lastSearchRequest, loading, lastError, lastAlert >>
    /\ UNCHANGED childVars

\* the next callback of forkJoin, run by the task that completes last:
\* clearInterval (the interval's closure, with its index, is garbage from here
\* on), the final phrase, and the settling timer
JoinNext(s, st, it) ==
    IF AllComplete(search[s].results, st, it)
    THEN /\ search' = [search EXCEPT ![s].interval = FALSE, ![s].index = 0,
                                     ![s].join = "timer"]
         /\ loadingMessage' = MsgAlmost
    ELSE UNCHANGED << search, loadingMessage >>

\* a summary callback that writes the first result of its batch (a closure
\* over a shared loop variable instead of the mapped element)
SummaryNextShared(r) ==
    /\ sumTask[r] = "pending"
    /\ sumTask' = [sumTask EXCEPT ![r] = "ok"]
    /\ aiSummary' = [aiSummary EXCEPT ![search[Owner(r)].results[1]] = Some(SummaryOf(r))]
    /\ JoinNext(Owner(r), sumTask', imgTask)
    /\ UNCHANGED << started, restaurants, lastSearchRequest, loading, photoUrl, imgTask,
                    lastError, lastAlert >>
    /\ UNCHANGED childVars

\* getAISummary(r.id) succeeds: map writes r.aiSummary
SummaryNext(r) ==
    /\ sumTask[r] = "pending"
    /\ sumTask' = [sumTask EXCEPT ![r] = "ok"]
    /\ aiSummary' = [aiSummary EXCEPT ![r] = Some(SummaryOf(r))]
    /\ JoinNext(Owner(r), sumTask', imgTask)
    /\ UNCHANGED << started, restaurants, lastSearchRequest, loading, photoUrl, imgTask,
                    lastError, lastAlert >>
    /\ UNCHANGED childVars

\* getAISummary(r.id) fails: catchError replaces the error by of(null)
SummaryError(r) ==
    /\ sumTask[r] = "pending"
    /\ sumTask' = [sumTask EXCEPT ![r] = "failed"]
    /\ JoinNext(Owner(r), sumTask', imgTask)
    /\ UNCHANGED << started, restaurants, lastSearchRequest, loading, photoUrl,
                    aiSummary, imgTask, lastError, lastAlert >>
    /\ UNCHANGED childVars

\* img.onload
ImageOnload(r) ==
    /\ imgTask[r] = "pending"
    /\ imgTask' = [imgTask EXCEPT ![r] = "true"]
    /\ JoinNext(Owner(r), sumTask, imgTask')
    /\ UNCHANGED << started, restaurants, lastSearchRequest, loading, photoUrl,
                    aiSummary, sumTask, lastError, lastAlert >>
    /\ UNCHANGED childVars

\* an onerror callback that also discards the summary of its restaurant
ImageOnerrorDropsSummary(r) ==
    /\ imgTask[r] = "pending"
    /\ imgTask' = [imgTask EXCEPT ![r] = "false"]
    /\ aiSummary' = [aiSummary EXCEPT ![r] = Null]
    /\ JoinNext(Owner(r), sumTask, imgTask')
    /\ UNCHANGED << started, restaurants, lastSearchRequest, loading, photoUrl,
                    sumTask, lastError, lastAlert >>
    /\ UNCHANGED childVars

\* img.onerror
ImageOnerror(r) ==
    /\ imgTask[r] = "pending"
    /\ imgTask' = [imgTask EXCEPT ![r] = "false"]
    /\ JoinNext(Owner(r), sumTask, imgTask')
    /\ UNCHANGED << started, restaurants, lastSearchRequest, loading, photoUrl,
                    aiSummary, sumTask, lastError, lastAlert >>
    /\ UNCHANGED childVars

\* the setTimeout(1500) callback set by the join: the reveal
SettleTimeout(s) ==
    /\ search[s].join = "timer"
    /\ restaurants' = search[s].results
    /\ loading' = FALSE
    /\ search' = [search EXCEPT ![s].join = "done"]
    /\ UNCHANGED << started, lastSearchRequest, loadingMessage,
                    photoUrl, aiSummary, sumTask, imgTask, lastError, lastAlert >>
    /\ UNCHANGED childVars

\* an error callback that forgets to end progress indication
RecommendationsErrorKeepsLoading(s, d) ==
    /\ search[s].rec = "pending"
    /\ search' = [search EXCEPT ![s].rec = "failed", ![s].req = Null,
                                ![s].interval = FALSE, ![s].index = 0]
    /\ lastError' = d
    /\ lastAlert' = AlertMessage(d)
    /\ restaurants' = << >>
    /\ UNCHANGED << started, lastSearchRequest, loading, loadingMessage,
                    photoUrl, aiSummary, sumTask, imgTask >>
    /\ UNCHANGED childVars

\* error of getPizzaRecommendations
RecommendationsError(s, d) ==
    /\ search[s].rec = "pending"
    /\ search' = [search EXCEPT ![s].rec = "failed", ![s].req = Null,
                                ![s].interval = FALSE, ![s].index = 0]
    /\ lastError' = d
    /\ lastAlert' = AlertMessage(d)
    /\ restaurants' = << >>
    /\ loading' = FALSE
    /\ UNCHANGED << started, lastSearchRequest, loadingMessage,
                    photoUrl, aiSummary, sumTask, imgTask >>
    /\ UNCHANGED childVars

(* ---------------------- autocomplete controller ----------------------- *)
\* the values one keystroke can turn the input text a into
Edits(a) ==
    { a \o c : c \in IF Len(a) < MaxLen THEN Alphabet ELSE { } }
      \cup { SubSeq(a, 1, Len(a) - 1) : x \in IF Len(a) > 0 THEN { 0 } ELSE { } }

\* a threshold of two characters
IsShortOffByOne(query) == query = "" \/ Len(query) < MinQueryLength - 1

\* !query || query.length < 3
IsShort(query) == query = "" \/ Len(query) < MinQueryLength

\* the list of n predictions the backend returns for request req
Answer(req, n) ==
    [ i \in 1..n |-> [ place_id |-> << req.id, i >>,
                       description |-> req.query \o Suffixes[i] ] ]

\* fetchPredictions(query) up to the dispatch of the autocomplete request
fetchPredictions(query) ==
    /\ errorMessage' = ""
    /\ lastQuery' = Some(query)
    /\ callParity' = 1 - callParity
    /\ IF IsShort(query)
       THEN /\ predictions' = << >>
            /\ showPredictions' = FALSE
            /\ UNCHANGED << acReqs, nFetch >>
       ELSE /\ acReqs' = acReqs \cup
                  { [ id |-> nFetch + 1, query |-> query, token |-> sessionToken ] }
            /\ nFetch' = nFetch + 1
            /\ UNCHANGED << predictions, showPredictions >>
    /\ UNCHANGED << activePredictionIndex >>

\* a debounce that keeps the first value of a burst instead of the last
OnInputChangeLeading(v) ==
    /\ started
    /\ v \in Edits(address)
    /\ address' = v
    /\ keyed' = v
    /\ debPending' = IF debPending = Null THEN Some(v) ELSE debPending
    /\ UNCHANGED << lastDistinct, lastQuery, callParity, acReqs, nFetch, predictions,
                    showPredictions, activePredictionIndex, errorMessage, authFailed,
                    sessionToken, lastOutcome,
                    lastKey, keyParity >>
    /\ UNCHANGED appVars
    /\ UNCHANGED formVars

\* a keystroke: ngModel writes address, (input) calls onInputChange, which
\* feeds searchSubject; debounceTime restarts its timer with the new value
OnInputChange(v) ==
    /\ started
    /\ v \in Edits(address)
    /\ address' = v
    /\ keyed' = v
    /\ debPending' = Some(v)
    /\ UNCHANGED << lastDistinct, lastQuery, callParity, acReqs, nFetch, predictions,
                    showPredictions, activePredictionIndex, errorMessage, authFailed,
                    sessionToken, lastOutcome,
                    lastKey, keyParity >>
    /\ UNCHANGED appVars
    /\ UNCHANGED formVars

\* the quiet period of debounceTime(300) ends: the pending value goes through
\* distinctUntilChanged and, unless equal to the last value let through, to
\* the subscriber, which calls fetchPredictions
DebounceFire ==
    /\ debPending # Null
    /\ LET v == debPending[1] IN
         IF lastDistinct = Some(v)
         THEN UNCHANGED << lastDistinct, lastQuery, callParity, acReqs, nFetch,
                           predictions, showPredictions, activePredictionIndex,
                           errorMessage >>
         ELSE /\ IsShort(v) \/ nFetch < MaxFetches
              /\ lastDistinct' = Some(v)
              /\ fetchPredictions(v)
    /\ debPending' = Null
    /\ UNCHANGED << address, keyed, authFailed, sessionToken, lastOutcome,
                    lastKey, keyParity >>
    /\ UNCHANGED appVars
    /\ UNCHANGED formVars

\* a next callback guarded by a sequence number: a response that is not the
\* latest dispatched is dropped
AutocompleteNextGuarded(req, n) ==
    /\ req \in acReqs
    /\ acReqs' = acReqs \ { req }
    /\ IF req.id = nFetch
       THEN /\ predictions' = Answer(req, n)
            /\ showPredictions' = (Len(Answer(req, n)) > 0)
            /\ activePredictionIndex' = -1
       ELSE UNCHANGED << predictions, showPredictions, activePredictionIndex >>
    /\ UNCHANGED << address, keyed, debPending, lastDistinct, lastQuery, callParity,
                    nFetch, errorMessage, authFailed, sessionToken,
                    lastKey, keyParity >>
    /\ lastOutcome' = "next"
    /\ UNCHANGED appVars
    /\ UNCHANGED formVars

\* a next callback that leaves the active index where the keyboard put it
AutocompleteNextKeepsIndex(req, n) ==
    /\ req \in acReqs
    /\ acReqs' = acReqs \ { req }
    /\ predictions' = Answer(req, n)
    /\ showPredictions' = (Len(Answer(req, n)) > 0)
    /\ UNCHANGED << address, keyed, debPending, lastDistinct, lastQuery, callParity,
                    nFetch, activePredictionIndex, errorMessage, authFailed,
                    sessionToken, lastKey, keyParity >>
    /\ lastOutcome' = "next"
    /\ UNCHANGED appVars
    /\ UNCHANGED formVars

\* next of getAutocompletePredictions
AutocompleteNext(req, n) ==
    /\ req \in acReqs
    /\ acReqs' = acReqs \ { req }
    /\ predictions' = Answer(req, n)
    /\ showPredictions' = (Len(Answer(req, n)) > 0)
    /\ activePredictionIndex' = -1
    /\ UNCHANGED << address, keyed, debPending, lastDistinct, lastQuery, callParity,
                    nFetch, errorMessage, authFailed, sessionToken,
                    lastKey, keyParity >>
    /\ lastOutcome' = "next"
    /\ UNCHANGED appVars
    /\ UNCHANGED formVars

\* error of getAutocompletePredictions
AutocompleteError(req) ==
    /\ req \in acReqs
    /\ acReqs' = acReqs \ { req }
    /\ predictions' = << >>
    /\ UNCHANGED << address, keyed, debPending, lastDistinct, lastQuery, callParity,
                    nFetch, showPredictions, activePredictionIndex, errorMessage,
                    authFailed, sessionToken,
                    lastKey, keyParity >>
    /\ lastOutcome' = "error"
    /\ UNCHANGED appVars
    /\ UNCHANGED formVars

\* window.gm_authFailure, called by the maps script when its key is refused
GmAuthFailure ==
    /\ started
    /\ ~authFailed
    /\ authFailed' = TRUE
    /\ errorMessage' = MsgAuthFailure
    /\ showPredictions' = TRUE
    /\ UNCHANGED << address, keyed, debPending, lastDistinct, lastQuery, callParity,
                    acReqs, nFetch, predictions, activePredictionIndex, sessionToken, lastOutcome,
                    lastKey, keyParity >>
    /\ UNCHANGED appVars
    /\ UNCHANGED formVars

\* the photo flags of the results of one answer
PhotoLists == UNION { [1..n -> BOOLEAN] : n \in 0..MaxRequests }

NextAuto ==
    \/ Start
    \/ \E v \in Edits(address) : OnInputChange(v)
    \/ DebounceFire
    \/ \E req \in acReqs, n \in 0..MaxPredictions : AutocompleteNext(req, n)
    \/ \E req \in acReqs : AutocompleteError(req)
    \/ GmAuthFailure

SpecAuto == Init /\ [][NextAuto]_vars

(* ------------------------- the search triggers ------------------------- *)
\* place-details answers of the backend:
\* { location: { latitude, longitude }, formattedAddress }
Places ==
    { [ formattedAddress |-> Some("1 Main St"),
        location |-> Some([ latitude |-> 40, longitude |-> -74 ]) ],
      [ formattedAddress |-> Null,
        location |-> Some([ latitude |-> 40, longitude |-> -74 ]) ],
      [ formattedAddress |-> Some("Nowhere"), location |-> Null ] }

\* position.coords of a GeolocationPosition
Positions == { [ latitude |-> 10, longitude |-> 20 ] }

\* answers of geocodeAddress
Coordinates == { [ latitude |-> 40, longitude |-> -74 ] }

MsgPlaceFailed == "Failed to get location details."
MsgNoCoordinates == "Could not retrieve location coordinates for this place."
MsgSelectAddress == "Please select an address from the autocomplete suggestions"
MsgGeocodeFailed == "Unable to find location. Please check your address."
MsgGeoGeneric == "Unable to get your location. Please enter an address manually."
MsgGeoDenied == "Location permission denied. Please allow access in browser settings."
MsgGeoUnavailable == "Location unavailable. Ensure GPS is on and try again."
MsgGeoTimeout == "Location request timed out. Please try again."

\* the message useCurrentLocation picks for error.code (0: an Error without code)
GeoMessage(code) ==
    CASE code = 1 -> MsgGeoDenied
      [] code = 2 -> MsgGeoUnavailable
      [] code = 3 -> MsgGeoTimeout
      [] OTHER -> MsgGeoGeneric

\* JavaScript truthiness of a number that may be undefined
TruthyNumber(x) == x # Null /\ x[1] # 0

\* The templates of the two children are not part of the sources.  The model
\* lets the pointer reach the form only when the orchestrator's overlay (fixed,
\* full screen, above everything) is not rendered and the form's own loading
\* flag is clear, and reach the results whenever the overlay is not rendered.
FormEnabled == started /\ ~loading /\ ~scLoading

ResultsEnabled == started /\ ~loading

\* window.alert from a child: nothing else of the orchestrator changes
alert(msg) ==
    /\ lastAlert' = msg
    /\ UNCHANGED << started, restaurants, lastSearchRequest, loading, loadingMessage,
                    search, photoUrl, aiSummary, sumTask, imgTask, lastError >>

\* performSearch: onSearch.emit runs handleSearch synchronously, then the
\* unlocking timer is set
performSearch(req) ==
    /\ Dispatched < MaxRequests
    /\ handleSearch(req)
    /\ unlockTimers' = unlockTimers + 1

\* handlePlaceSelection(place)
handlePlaceSelection(place) ==
    /\ selectedPlace' = Some(place)
    /\ LET lat  == IF place.location = Null THEN Null
                   ELSE Some(place.location[1].latitude)
           lng  == IF place.location = Null THEN Null
                   ELSE Some(place.location[1].longitude)
           addr == place.formattedAddress
       IN IF TruthyNumber(lat) /\ TruthyNumber(lng)
          THEN /\ scLoading' = TRUE
               /\ performSearch([ address |-> IF addr # Null /\ addr[1] # ""
                                              THEN addr[1] ELSE address,
                                  latitude |-> lat, longitude |-> lng,
                                  preferences |-> ThisPreferences ])
          ELSE /\ alert(MsgNoCoordinates)
               /\ UNCHANGED << scLoading, unlockTimers >>

\* selectPrediction(prediction) up to the dispatch of the place-details request
selectPrediction(prediction) ==
    /\ acts < MaxActs
    /\ acts' = acts + 1
    /\ address' = prediction.description
    /\ showPredictions' = FALSE
    /\ placeReqs' = placeReqs \cup
          { [ id |-> acts + 1, place_id |-> prediction.place_id ] }

\* a click on prediction i of the dropdown: selectPrediction
SelectPrediction(i) ==
    /\ FormEnabled
    /\ showPredictions
    /\ i \in DOMAIN predictions
    /\ selectPrediction(predictions[i])
    /\ UNCHANGED << keyed, debPending, lastDistinct, lastQuery, callParity, acReqs,
                    nFetch, predictions, activePredictionIndex, errorMessage,
                    authFailed, sessionToken, lastOutcome, lastKey, keyParity >>
    /\ UNCHANGED << scLoading, selectedPlace, geocodeReqs, unlockTimers, geolocation,
                    locReqs, rLoading, rerollTimers >>
    /\ UNCHANGED appVars
    /\ UNCHANGED viewVars

\* the keys onKeydown tells apart
Keys == { "ArrowDown", "ArrowUp", "Enter", "Escape" }

\* the % of JavaScript: the remainder has the sign of the dividend
JsRem(a, b) == IF a >= 0 THEN a % b ELSE 0 - ((0 - a) % b)

\* an onKeydown whose arrows stop at the ends of the list instead of wrapping
OnKeydownClamped(key) ==
    /\ started
    /\ lastKey' = Some(key)
    /\ keyParity' = 1 - keyParity
    /\ IF ~showPredictions \/ Len(predictions) = 0
       THEN /\ UNCHANGED << address, keyed, debPending, lastDistinct, lastQuery,
                            callParity, acReqs, nFetch, predictions, showPredictions,
                            activePredictionIndex, errorMessage, authFailed,
                            sessionToken, lastOutcome >>
            /\ UNCHANGED formVars
       ELSE /\ CASE key = "ArrowDown" ->
                      /\ activePredictionIndex' =
                            IF activePredictionIndex + 1 < Len(predictions)
                            THEN activePredictionIndex + 1 ELSE activePredictionIndex
                      /\ UNCHANGED << address, showPredictions, placeReqs, acts >>
                 [] key = "ArrowUp" ->
                      /\ activePredictionIndex' =
                            IF activePredictionIndex > 0
                            THEN activePredictionIndex - 1 ELSE activePredictionIndex
                      /\ UNCHANGED << address, showPredictions, placeReqs, acts >>
                 [] key = "Enter" ->
                      IF activePredictionIndex >= 0
                      THEN /\ selectPrediction(predictions[activePredictionIndex + 1])
                           /\ UNCHANGED activePredictionIndex
                      ELSE UNCHANGED << address, showPredictions, placeReqs, acts,
                                        activePredictionIndex >>
                 [] key = "Escape" ->
                      /\ showPredictions' = FALSE
                      /\ UNCHANGED << address, placeReqs, acts, activePredictionIndex >>
            /\ UNCHANGED << keyed, debPending, lastDistinct, lastQuery, callParity,
                            acReqs, nFetch, predictions, errorMessage, authFailed,
                            sessionToken, lastOutcome >>
            /\ UNCHANGED << scLoading, selectedPlace, geocodeReqs, unlockTimers,
                            geolocation, locReqs, rLoading, rerollTimers >>
    /\ UNCHANGED appVars
    /\ UNCHANGED viewVars

\* an onKeydown whose ArrowDown steps past the end of the list
OnKeydownUnbounded(key) ==
    /\ started
    /\ lastKey' = Some(key)
    /\ keyParity' = 1 - keyParity
    /\ IF ~showPredictions \/ Len(predictions) = 0
       THEN /\ UNCHANGED << address, keyed, debPending, lastDistinct, lastQuery,
                            callParity, acReqs, nFetch, predictions, showPredictions,
                            activePredictionIndex, errorMessage, authFailed,
                            sessionToken, lastOutcome >>
            /\ UNCHANGED formVars
       ELSE /\ CASE key = "ArrowDown" ->
                      /\ activePredictionIndex' = activePredictionIndex + 1
                      /\ UNCHANGED << address, showPredictions, placeReqs, acts >>
                 [] key = "ArrowUp" ->
                      /\ activePredictionIndex' =
                            JsRem(activePredictionIndex - 1 + Len(predictions),
                                  Len(predictions))
                      /\ UNCHANGED << address, showPredictions, placeReqs, acts >>
                 [] key = "Enter" ->
                      IF activePredictionIndex >= 0
                      THEN /\ selectPrediction(predictions[activePredictionIndex + 1])
                           /\ UNCHANGED activePredictionIndex
                      ELSE UNCHANGED << address, showPredictions, placeReqs, acts,
                                        activePredictionIndex >>
                 [] key = "Escape" ->
                      /\ showPredictions' = FALSE
                      /\ UNCHANGED << address, placeReqs, acts, activePredictionIndex >>
            /\ UNCHANGED << keyed, debPending, lastDistinct, lastQuery, callParity,
                            acReqs, nFetch, predictions, errorMessage, authFailed,
                            sessionToken, lastOutcome >>
            /\ UNCHANGED << scLoading, selectedPlace, geocodeReqs, unlockTimers,
                            geolocation, locReqs, rLoading, rerollTimers >>
    /\ UNCHANGED appVars
    /\ UNCHANGED viewVars

\* (keydown) on the address input: onKeydown(event) for event.key = key
OnKeydown(key) ==
    /\ started
    /\ lastKey' = Some(key)
    /\ keyParity' = 1 - keyParity
    /\ IF ~showPredictions \/ Len(predictions) = 0
       THEN /\ UNCHANGED << address, keyed, debPending, lastDistinct, lastQuery,
                            callParity, acReqs, nFetch, predictions, showPredictions,
                            activePredictionIndex, errorMessage, authFailed,
                            sessionToken, lastOutcome >>
            /\ UNCHANGED formVars
       ELSE /\ CASE key = "ArrowDown" ->
                      /\ activePredictionIndex' =
                            JsRem(activePredictionIndex + 1, Len(predictions))
                      /\ UNCHANGED << address, showPredictions, placeReqs, acts >>
                 [] key = "ArrowUp" ->
                      /\ activePredictionIndex' =
                            JsRem(activePredictionIndex - 1 + Len(predictions),
                                  Len(predictions))
                      /\ UNCHANGED << address, showPredictions, placeReqs, acts >>
                 [] key = "Enter" ->
                      IF activePredictionIndex >= 0
                      THEN /\ selectPrediction(predictions[activePredictionIndex + 1])
                           /\ UNCHANGED activePredictionIndex
                      ELSE UNCHANGED << address, showPredictions, placeReqs, acts,
                                        activePredictionIndex >>
                 [] key = "Escape" ->
                      /\ showPredictions' = FALSE
                      /\ UNCHANGED << address, placeReqs, acts, activePredictionIndex >>
            /\ UNCHANGED << keyed, debPending, lastDistinct, lastQuery, callParity,
                            acReqs, nFetch, predictions, errorMessage, authFailed,
                            sessionToken, lastOutcome >>
            /\ UNCHANGED << scLoading, selectedPlace, geocodeReqs, unlockTimers,
                            geolocation, locReqs, rLoading, rerollTimers >>
    /\ UNCHANGED appVars
    /\ UNCHANGED viewVars

\* next of getGooglePlaceDetails: handlePlaceSelection, then a fresh session token
PlaceDetailsNext(req, place) ==
    /\ req \in placeReqs
    /\ placeReqs' = placeReqs \ { req }
    /\ handlePlaceSelection(place)
    /\ sessionToken' = sessionToken + 1
    /\ UNCHANGED << address, keyed, debPending, lastDistinct, lastQuery, callParity,
                    acReqs, nFetch, predictions, showPredictions,
                    activePredictionIndex, errorMessage, authFailed, lastOutcome,
                    lastKey, keyParity >>
    /\ UNCHANGED << geocodeReqs, geolocation, locReqs, rLoading, rerollTimers, acts >>
    /\ UNCHANGED viewVars

\* an error callback that mints a session token as the next callback does
PlaceDetailsErrorMints(req) ==
    /\ req \in placeReqs
    /\ placeReqs' = placeReqs \ { req }
    /\ alert(MsgPlaceFailed)
    /\ sessionToken' = sessionToken + 1
    /\ UNCHANGED << address, keyed, debPending, lastDistinct, lastQuery, callParity,
                    acReqs, nFetch, predictions, showPredictions,
                    activePredictionIndex, errorMessage, authFailed, lastOutcome,
                    lastKey, keyParity >>
    /\ UNCHANGED << scLoading, selectedPlace, geocodeReqs, unlockTimers, geolocation,
                    locReqs, rLoading, rerollTimers, acts >>
    /\ UNCHANGED viewVars

\* error of getGooglePlaceDetails
PlaceDetailsError(req) ==
    /\ req \in placeReqs
    /\ placeReqs' = placeReqs \ { req }
    /\ alert(MsgPlaceFailed)
    /\ UNCHANGED acVars
    /\ UNCHANGED << scLoading, selectedPlace, geocodeReqs, unlockTimers, geolocation,
                    locReqs, rLoading, rerollTimers, acts >>
    /\ UNCHANGED viewVars

\* the setTimeout(1000) callback of performSearch
UnlockTimeout ==
    /\ unlockTimers > 0
    /\ unlockTimers' = unlockTimers - 1
    /\ scLoading' = FALSE
    /\ UNCHANGED << selectedPlace, placeReqs, geocodeReqs, geolocation, locReqs,
                    rLoading, rerollTimers, acts >>
    /\ UNCHANGED acVars
    /\ UNCHANGED appVars
    /\ UNCHANGED viewVars

\* the Use Current Location button: useCurrentLocation.  Without
\* navigator.geolocation the observable errors inside subscribe, so the error
\* callback runs before useCurrentLocation returns.
UseCurrentLocation ==
    /\ FormEnabled
    /\ acts < MaxActs
    /\ acts' = acts + 1
    /\ IF geolocation
       THEN /\ scLoading' = TRUE
            /\ locReqs' = [locReqs EXCEPT ![HighAccuracy] = @ + 1]
            /\ UNCHANGED appVars
       ELSE /\ alert(MsgGeoGeneric)
            /\ scLoading' = FALSE
            /\ UNCHANGED locReqs
    /\ UNCHANGED << selectedPlace, placeReqs, geocodeReqs, unlockTimers, geolocation,
                    rLoading, rerollTimers >>
    /\ UNCHANGED acVars
    /\ UNCHANGED viewVars

\* a success callback that sends the typed text as the address
GeoSuccessTyped(attempt, pos) ==
    /\ locReqs[attempt] > 0
    /\ locReqs' = [locReqs EXCEPT ![attempt] = @ - 1]
    /\ performSearch([ address |-> address,
                       latitude |-> Some(pos.latitude),
                       longitude |-> Some(pos.longitude),
                       preferences |-> ThisPreferences ])
    /\ UNCHANGED << scLoading, selectedPlace, placeReqs, geocodeReqs, geolocation,
                    rLoading, rerollTimers, acts >>
    /\ UNCHANGED acVars
    /\ UNCHANGED viewVars

\* the success callback of either attempt: observer.next, the next callback
\* of useCurrentLocation, performSearch
GeoSuccess(attempt, pos) ==
    /\ locReqs[attempt] > 0
    /\ locReqs' = [locReqs EXCEPT ![attempt] = @ - 1]
    /\ performSearch([ address |-> "Current Location",
                       latitude |-> Some(pos.latitude),
                       longitude |-> Some(pos.longitude),
                       preferences |-> ThisPreferences ])
    /\ UNCHANGED << scLoading, selectedPlace, placeReqs, geocodeReqs, geolocation,
                    rLoading, rerollTimers, acts >>
    /\ UNCHANGED acVars
    /\ UNCHANGED viewVars

\* an error callback that falls back to low accuracy after every error of the
\* high-accuracy attempt, a denied permission included
GeoErrorRetriesDenied(attempt, code) ==
    /\ locReqs[attempt] > 0
    /\ IF attempt = HighAccuracy
       THEN /\ locReqs' = [locReqs EXCEPT ![HighAccuracy] = @ - 1,
                                          ![LowAccuracy(code)] = @ + 1]
            /\ UNCHANGED scLoading
            /\ UNCHANGED appVars
       ELSE /\ locReqs' = [locReqs EXCEPT ![attempt] = @ - 1]
            /\ alert(GeoMessage(code))
            /\ scLoading' = FALSE
    /\ UNCHANGED << selectedPlace, placeReqs, geocodeReqs, unlockTimers, geolocation,
                    rLoading, rerollTimers, acts >>
    /\ UNCHANGED acVars
    /\ UNCHANGED viewVars

\* the error callback of either attempt: the high-accuracy attempt falls back
\* to the low-accuracy one unless permission was denied; otherwise
\* observer.error and the error callback of useCurrentLocation
GeoError(attempt, code) ==
    /\ locReqs[attempt] > 0
    /\ IF attempt = HighAccuracy /\ code # PERMISSION_DENIED
       THEN /\ locReqs' = [locReqs EXCEPT ![HighAccuracy] = @ - 1,
                                          ![LowAccuracy(code)] = @ + 1]
            /\ UNCHANGED scLoading
            /\ UNCHANGED appVars
       ELSE /\ locReqs' = [locReqs EXCEPT ![attempt] = @ - 1]
            /\ alert(GeoMessage(code))
            /\ scLoading' = FALSE
    /\ UNCHANGED << selectedPlace, placeReqs, geocodeReqs, unlockTimers, geolocation,
                    rLoading, rerollTimers, acts >>
    /\ UNCHANGED acVars
    /\ UNCHANGED viewVars

\* the Search button: searchByAddress.  A place stored by handlePlaceSelection
\* has location.latitude and location.longitude, so location.lat and
\* location.lng are undefined.
SearchByAddress ==
    /\ FormEnabled
    /\ acts < MaxActs
    /\ acts' = acts + 1
    /\ IF address = ""
       THEN /\ alert(MsgSelectAddress)
            /\ UNCHANGED << scLoading, geocodeReqs, unlockTimers >>
       ELSE /\ scLoading' = TRUE
            /\ IF selectedPlace # Null /\ selectedPlace[1].location # Null
               THEN /\ performSearch([ address |-> address,
                                       latitude |-> Null, longitude |-> Null,
                                       preferences |-> ThisPreferences ])
                    /\ UNCHANGED geocodeReqs
               ELSE /\ geocodeReqs' = geocodeReqs + 1
                    /\ UNCHANGED unlockTimers
                    /\ UNCHANGED appVars
    /\ UNCHANGED << selectedPlace, placeReqs, geolocation, locReqs, rLoading,
                    rerollTimers >>
    /\ UNCHANGED acVars
    /\ UNCHANGED viewVars

\* next of geocodeAddress: the request carries the address of this moment
GeocodeNext(coords) ==
    /\ geocodeReqs > 0
    /\ geocodeReqs' = geocodeReqs - 1
    /\ performSearch([ address |-> address,
                       latitude |-> Some(coords.latitude),
                       longitude |-> Some(coords.longitude),
                       preferences |-> ThisPreferences ])
    /\ UNCHANGED << scLoading, selectedPlace, placeReqs, geolocation, locReqs,
                    rLoading, rerollTimers, acts >>
    /\ UNCHANGED acVars
    /\ UNCHANGED viewVars

\* an error callback of geocodeAddress that leaves the form's loading flag set
GeocodeErrorKeepsLoading ==
    /\ geocodeReqs > 0
    /\ geocodeReqs' = geocodeReqs - 1
    /\ alert(MsgGeocodeFailed)
    /\ UNCHANGED << scLoading, selectedPlace, placeReqs, unlockTimers, geolocation,
                    locReqs, rLoading, rerollTimers, acts >>
    /\ UNCHANGED acVars
    /\ UNCHANGED viewVars

\* error of geocodeAddress
GeocodeError ==
    /\ geocodeReqs > 0
    /\ geocodeReqs' = geocodeReqs - 1
    /\ alert(MsgGeocodeFailed)
    /\ scLoading' = FALSE
    /\ UNCHANGED << selectedPlace, placeReqs, unlockTimers, geolocation, locReqs,
                    rLoading, rerollTimers, acts >>
    /\ UNCHANGED acVars
    /\ UNCHANGED viewVars

\* a rerollRecommendations that does not look at its own loading flag
RerollUnguarded ==
    /\ ResultsEnabled
    /\ acts < MaxActs
    /\ acts' = acts + 1
    /\ rerollClicks' = 1 - rerollClicks
    /\ IF lastSearchRequest # Null
       THEN /\ rLoading' = TRUE
            /\ Dispatched < MaxRequests
            /\ handleSearch(lastSearchRequest[1])
            /\ rerollTimers' = rerollTimers + 1
       ELSE /\ UNCHANGED << rLoading, rerollTimers >>
            /\ UNCHANGED appVars
    /\ UNCHANGED << scLoading, selectedPlace, placeReqs, geocodeReqs, unlockTimers,
                    geolocation, locReqs >>
    /\ UNCHANGED << maxDistance, validations, selectedRestaurant, rAiSummary,
                    loadingSummary, summaryReqs, selections >>
    /\ UNCHANGED acVars

\* the reroll button: rerollRecommendations; onReroll.emit runs handleSearch
\* synchronously
Reroll ==
    /\ ResultsEnabled
    /\ acts < MaxActs
    /\ acts' = acts + 1
    /\ rerollClicks' = 1 - rerollClicks
    /\ IF lastSearchRequest # Null /\ ~rLoading
       THEN /\ rLoading' = TRUE
            /\ Dispatched < MaxRequests
            /\ handleSearch(lastSearchRequest[1])
            /\ rerollTimers' = rerollTimers + 1
       ELSE /\ UNCHANGED << rLoading, rerollTimers >>
            /\ UNCHANGED appVars
    /\ UNCHANGED << scLoading, selectedPlace, placeReqs, geocodeReqs, unlockTimers,
                    geolocation, locReqs >>
    /\ UNCHANGED << maxDistance, validations, selectedRestaurant, rAiSummary,
                    loadingSummary, summaryReqs, selections >>
    /\ UNCHANGED acVars

\* the setTimeout(2000) callback of rerollRecommendations
RerollTimeout ==
    /\ rerollTimers > 0
    /\ rerollTimers' = rerollTimers - 1
    /\ rLoading' = FALSE
    /\ UNCHANGED << scLoading, selectedPlace, placeReqs, geocodeReqs, unlockTimers,
                    geolocation, locReqs, acts >>
    /\ UNCHANGED acVars
    /\ UNCHANGED appVars
    /\ UNCHANGED viewVars

\* the dropdown after the user typed a query of three characters and the
\* backend answered its request with a full list
AcShown ==
    /\ address = "aaa"
    /\ keyed = "aaa"
    /\ debPending = Null
    /\ lastDistinct = Some("aaa")
    /\ lastQuery = Some("aaa")
    /\ callParity = 1
    /\ acReqs = { }
    /\ nFetch = 1
    /\ predictions = Answer([ id |-> 1, query |-> "aaa", token |-> 0 ], MaxPredictions)
    /\ showPredictions = TRUE
    /\ activePredictionIndex = -1
    /\ errorMessage = ""
    /\ authFailed = FALSE
    /\ sessionToken = 0
    /\ lastOutcome = "next"
    /\ lastKey = Null
    /\ keyParity = 0

\* the triggers start from the landing page, or from the main page with the
\* dropdown open; the browser may lack geolocation
InitForm ==
    /\ restaurants = << >>
    /\ lastSearchRequest = Null
    /\ loading = FALSE
    /\ loadingMessage = MsgFinding
    /\ search = << >>
    /\ photoUrl = << >>
    /\ aiSummary = << >>
    /\ sumTask = << >>
    /\ imgTask = << >>
    /\ lastError = NoDetail
    /\ lastAlert = NoAlert
    /\ \/ started = FALSE /\ AcInit
       \/ started = TRUE /\ AcShown
    /\ TriggerInit
    /\ geolocation \in BOOLEAN

\* answers whose results carry no photo: their probes complete at subscription
PlainLists == { [ i \in 1..n |-> FALSE ] : n \in 0..MaxRequests }

\* the triggers and the orchestrator they drive; the rotation of the status
\* phrase, the image probes and the error details are left to Spec
NextForm ==
    \/ Start
    \/ \E i \in DOMAIN predictions : SelectPrediction(i)
    \/ \E req \in placeReqs, place \in Places : PlaceDetailsNext(req, place)
    \/ \E req \in placeReqs : PlaceDetailsError(req)
    \/ UnlockTimeout
    \/ UseCurrentLocation
    \/ \E attempt \in GeoAttempts, pos \in Positions : GeoSuccess(attempt, pos)
    \/ \E attempt \in GeoAttempts, code \in GeoErrorCodes : GeoError(attempt, code)
    \/ SearchByAddress
    \/ \E coords \in Coordinates : GeocodeNext(coords)
    \/ GeocodeError
    \/ Reroll
    \/ RerollTimeout
    \/ \E s \in Searches, photos \in PlainLists : RecommendationsNext(s, photos)
    \/ \E s \in Searches : RecommendationsError(s, NoDetail)
    \/ \E r \in Heap : SummaryNext(r)
    \/ \E r \in Heap : SummaryError(r)
    \/ \E s \in Searches : SettleTimeout(s)

SpecForm == InitForm /\ [][NextForm]_vars

\* the triggers that set the form's loading flag, with the steps and the
\* timers that clear it; a search they start ends with a failed fetch
NextLoad ==
    \/ Start
    \/ \E i \in DOMAIN predictions : SelectPrediction(i)
    \/ \E req \in placeReqs, place \in Places : PlaceDetailsNext(req, place)
    \/ \E req \in placeReqs : PlaceDetailsError(req)
    \/ UnlockTimeout
    \/ UseCurrentLocation
    \/ \E attempt \in GeoAttempts, pos \in Positions : GeoSuccess(attempt, pos)
    \/ \E attempt \in GeoAttempts, code \in GeoErrorCodes : GeoError(attempt, code)
    \/ SearchByAddress
    \/ \E coords \in Coordinates : GeocodeNext(coords)
    \/ GeocodeError
    \/ \E s \in Searches : RecommendationsError(s, NoDetail)

\* every geolocation attempt and every geocoding request settles, and every
\* setTimeout callback of performSearch runs
SpecLoad ==
    /\ InitForm
    /\ [][NextLoad]_vars
    /\ WF_vars(UnlockTimeout)
    /\ WF_vars(\E attempt \in GeoAttempts :
                  \/ \E pos \in Positions : GeoSuccess(attempt, pos)
                  \/ \E code \in GeoErrorCodes : GeoError(attempt, code))
    /\ WF_vars((\E coords \in Coordinates : GeocodeNext(coords)) \/ GeocodeError)

\* the dropdown shows the answer to "aaa" and the user has just typed one
\* more character: the quiet period of the debounce is running
AcPending ==
    /\ address = "aaaa"
    /\ keyed = "aaaa"
    /\ debPending = Some("aaaa")
    /\ lastDistinct = Some("aaa")
    /\ lastQuery = Some("aaa")
    /\ callParity = 1
    /\ acReqs = { }
    /\ nFetch = 1
    /\ predictions = Answer([ id |-> 1, query |-> "aaa", token |-> 0 ], MaxPredictions)
    /\ showPredictions = TRUE
    /\ activePredictionIndex = -1
    /\ errorMessage = ""
    /\ authFailed = FALSE
    /\ sessionToken = 0
    /\ lastOutcome = "next"
    /\ lastKey = Null
    /\ keyParity = 0

InitSelect ==
    /\ started = TRUE
    /\ restaurants = << >>
    /\ lastSearchRequest = Null
    /\ loading = FALSE
    /\ loadingMessage = MsgFinding
    /\ search = << >>
    /\ photoUrl = << >>
    /\ aiSummary = << >>
    /\ sumTask = << >>
    /\ imgTask = << >>
    /\ lastError = NoDetail
    /\ lastAlert = NoAlert
    /\ AcPending
    /\ TriggerInit
    /\ geolocation = TRUE

\* place-details answers, a place on the equator included
ResolvedPlaces ==
    Places \cup
      { [ formattedAddress |-> Some("0 Equator Rd"),
          location |-> Some([ latitude |-> 0, longitude |-> 20 ]) ] }

\* the dropdown with its keyboard, the selection of a prediction and the
\* place resolution it starts; the searches started stay in flight
NextSelect ==
    \/ DebounceFire
    \/ \E req \in acReqs, n \in 0..MaxPredictions : AutocompleteNext(req, n)
    \/ \E req \in acReqs : AutocompleteError(req)
    \/ GmAuthFailure
    \/ \E key \in Keys : OnKeydown(key)
    \/ \E i \in DOMAIN predictions : SelectPrediction(i)
    \/ \E req \in placeReqs, place \in ResolvedPlaces : PlaceDetailsNext(req, place)
    \/ \E req \in placeReqs : PlaceDetailsError(req)

SpecSelect == InitSelect /\ [][NextSelect]_vars

(* --------------------------- the preferences --------------------------- *)
\* the limits of validateDistance
MinDistance == 1
MaxDistance == 50

\* what the distance field can hold: nothing (null), or a number up to
\* DistanceMargin outside the limits
DistanceMargin == 3
DistanceInputs ==
    { Null } \cup
      { Some(n) : n \in (MinDistance - DistanceMargin)..(MaxDistance + DistanceMargin) }

\* a clamp that lets an empty field through
validateDistanceNoDefault(dist) ==
    LET low == IF dist # Null /\ dist[1] < MinDistance THEN Some(MinDistance) ELSE dist
    IN IF low # Null /\ low[1] > MaxDistance THEN Some(MaxDistance) ELSE low

\* the value validateDistance stores for dist:
\* if (!dist || dist < 1) dist = 1; if (dist > 50) dist = 50;
validateDistance(dist) ==
    LET low == IF ~TruthyNumber(dist) \/ dist[1] < MinDistance
               THEN Some(MinDistance) ELSE dist
    IN IF low[1] > MaxDistance THEN Some(MaxDistance) ELSE low

\* the user edits the distance field: the binding writes preferences.maxDistance
SetDistance(v) ==
    /\ started
    /\ maxDistance' = v
    /\ UNCHANGED << validations, selectedRestaurant, rAiSummary, loadingSummary,
                    summaryReqs, selections, rerollClicks >>
    /\ UNCHANGED << scLoading, selectedPlace, placeReqs, geocodeReqs, unlockTimers,
                    geolocation, locReqs, rLoading, rerollTimers, acts >>
    /\ UNCHANGED acVars
    /\ UNCHANGED appVars

\* the distance field is committed: validateDistance(event)
ValidateDistance ==
    /\ started
    /\ maxDistance' = validateDistance(maxDistance)
    /\ validations' = 1 - validations
    /\ UNCHANGED << selectedRestaurant, rAiSummary, loadingSummary, summaryReqs,
                    selections, rerollClicks >>
    /\ UNCHANGED << scLoading, selectedPlace, placeReqs, geocodeReqs, unlockTimers,
                    geolocation, locReqs, rLoading, rerollTimers, acts >>
    /\ UNCHANGED acVars
    /\ UNCHANGED appVars

NextPrefs ==
    \/ Start
    \/ \E v \in DistanceInputs : SetDistance(v)
    \/ ValidateDistance

SpecPrefs == Init /\ [][NextPrefs]_vars

\* the distance field holds a committed value: the user leaves the field,
\* which commits it, before a click or a key reaches another control
DistanceCommitted ==
    /\ maxDistance # Null
    /\ maxDistance[1] \in MinDistance..MaxDistance

\* the distance field next to the triggers of the form: a trigger is used
\* with a committed distance only, and the field stays editable while the
\* requests of a trigger are in flight; the searches started stay in flight
NextDistance ==
    \/ Start
    \/ \E v \in DistanceInputs : SetDistance(v)
    \/ ValidateDistance
    \/ \E i \in DOMAIN predictions : DistanceCommitted /\ SelectPrediction(i)
    \/ \E req \in placeReqs, place \in Places : PlaceDetailsNext(req, place)
    \/ \E req \in placeReqs : PlaceDetailsError(req)
    \/ UnlockTimeout
    \/ DistanceCommitted /\ UseCurrentLocation
    \/ \E attempt \in GeoAttempts, pos \in Positions : GeoSuccess(attempt, pos)
    \/ \E attempt \in GeoAttempts, code \in GeoErrorCodes : GeoError(attempt, code)
    \/ DistanceCommitted /\ SearchByAddress
    \/ \E coords \in Coordinates : GeocodeNext(coords)
    \/ GeocodeError

SpecDistance == InitForm /\ [][NextDistance]_vars

(* --------------------------- the detail view --------------------------- *)
\* loadAISummary(restaurantId)
loadAISummary(r) ==
    /\ loadingSummary' = TRUE
    /\ rAiSummary' = Null
    /\ summaryReqs' = Append(summaryReqs, [ restaurantId |-> r, state |-> "pending" ])

\* a click on card i of the results: selectRestaurant(restaurant)
SelectRestaurant(i) ==
    /\ ResultsEnabled
    /\ i \in DOMAIN restaurants
    /\ acts < MaxActs
    /\ acts' = acts + 1
    /\ selections' = 1 - selections
    /\ selectedRestaurant' = Some(restaurants[i])
    /\ IF aiSummary[restaurants[i]] # Null
       THEN /\ rAiSummary' = aiSummary[restaurants[i]]
            /\ loadingSummary' = FALSE
            /\ UNCHANGED summaryReqs
       ELSE loadAISummary(restaurants[i])
    /\ UNCHANGED << maxDistance, validations, rerollClicks >>
    /\ UNCHANGED << scLoading, selectedPlace, placeReqs, geocodeReqs, unlockTimers,
                    geolocation, locReqs, rLoading, rerollTimers >>
    /\ UNCHANGED acVars
    /\ UNCHANGED appVars

\* the close button of the detail view: closeDetails
CloseDetails ==
    /\ ResultsEnabled
    /\ selectedRestaurant # Null
    /\ selectedRestaurant' = Null
    /\ rAiSummary' = Null
    /\ UNCHANGED << maxDistance, validations, loadingSummary, summaryReqs, selections,
                    rerollClicks >>
    /\ UNCHANGED << scLoading, selectedPlace, placeReqs, geocodeReqs, unlockTimers,
                    geolocation, locReqs, rLoading, rerollTimers, acts >>
    /\ UNCHANGED acVars
    /\ UNCHANGED appVars

\* next of the getAISummary of loadAISummary
DetailSummaryNext(k) ==
    /\ k \in DOMAIN summaryReqs
    /\ summaryReqs[k].state = "pending"
    /\ summaryReqs' = [summaryReqs EXCEPT ![k].state = "ok"]
    /\ rAiSummary' = Some(SummaryOf(summaryReqs[k].restaurantId))
    /\ loadingSummary' = FALSE
    /\ UNCHANGED << maxDistance, validations, selectedRestaurant, selections,
                    rerollClicks >>
    /\ UNCHANGED << scLoading, selectedPlace, placeReqs, geocodeReqs, unlockTimers,
                    geolocation, locReqs, rLoading, rerollTimers, acts >>
    /\ UNCHANGED acVars
    /\ UNCHANGED appVars

\* error of the getAISummary of loadAISummary
DetailSummaryError(k) ==
    /\ k \in DOMAIN summaryReqs
    /\ summaryReqs[k].state = "pending"
    /\ summaryReqs' = [summaryReqs EXCEPT ![k].state = "failed"]
    /\ loadingSummary' = FALSE
    /\ UNCHANGED << maxDistance, validations, selectedRestaurant, rAiSummary,
                    selections, rerollClicks >>
    /\ UNCHANGED << scLoading, selectedPlace, placeReqs, geocodeReqs, unlockTimers,
                    geolocation, locReqs, rLoading, rerollTimers, acts >>
    /\ UNCHANGED acVars
    /\ UNCHANGED appVars

\* the results and their detail view under the orchestrator that fills them
NextDetail ==
    \/ Start
    \/ \E req \in SampleRequests : HandleSearch(req)
    \/ \E s \in Searches, photos \in PlainLists : RecommendationsNext(s, photos)
    \/ \E r \in Heap : SummaryNext(r)
    \/ \E r \in Heap : SummaryError(r)
    \/ \E s \in Searches : SettleTimeout(s)
    \/ \E i \in DOMAIN restaurants : SelectRestaurant(i)
    \/ CloseDetails
    \/ \E k \in DOMAIN summaryReqs : DetailSummaryNext(k)
    \/ \E k \in DOMAIN summaryReqs : DetailSummaryError(k)

SpecDetail == Init /\ [][NextDetail]_vars


Next ==
    \/ Start
    \/ \E req \in SampleRequests : HandleSearch(req)
    \/ \E s \in Searches : IntervalTick(s)
    \/ \E s \in Searches, photos \in PhotoLists : RecommendationsNext(s, photos)
    \/ \E s \in Searches, d \in ErrorDetails : RecommendationsError(s, d)
    \/ \E r \in Heap : SummaryNext(r)
    \/ \E r \in Heap : SummaryError(r)
    \/ \E r \in Heap : ImageOnload(r)
    \/ \E r \in Heap : ImageOnerror(r)
    \/ \E s \in Searches : SettleTimeout(s)

Spec == Init /\ [][Next]_vars

(* ======================= the search orchestrator ======================= *)
\* search s has nothing left to wait for: its recommendation fetch, every
\* summary fetch and image probe have settled and no settling timer is pending
NoTaskPending(s) ==
    \A i \in DOMAIN search[s].results :
        /\ sumTask[search[s].results[i]] \in { "ok", "failed" }
        /\ imgTask[search[s].results[i]] \in { "true", "false" }

Settled(s) ==
    /\ search[s].rec # "pending"
    /\ NoTaskPending(s)
    /\ search[s].join # "timer"

AllSettled == search # << >> /\ \A s \in Searches : Settled(s)

\* every summary fetch of s failed and every image it tried to load failed
AllFailed(s) ==
    \A i \in DOMAIN search[s].results :
        LET r == search[s].results[i] IN
            /\ sumTask[r] = "failed"
            /\ photoUrl[r] => imgTask[r] = "false"

\* C1: once every request, probe and settling timer of every search started by
\* handleSearch has settled, progress indication has ended (App.loading is
\* false), for a failed fetch and for a successful one with any number of
\* results, zero included.
C1_LoadingEnds == AllSettled => ~loading

\* the same with the searches that returned no result left out
LoadingEndsWhenNonEmpty ==
    (AllSettled /\ \A s \in Searches : search[s].join # "empty") => ~loading

\* C2: a search whose recommendation fetch succeeded with N results, all of
\* whose summary fetches and image loads failed, is revealed once its settling
\* timer has fired, its N results carry no aiSummary, and no alert was raised
\* unless some recommendation fetch failed.
C2_AllFailStillReveals ==
    \A s \in Searches :
        (search[s].rec = "ok" /\ AllFailed(s) /\ search[s].join # "timer") =>
            /\ search[s].join = "done"
            /\ \A i \in DOMAIN search[s].results : aiSummary[search[s].results[i]] = Null
            /\ (\A t \in Searches : search[t].rec # "failed") => lastAlert = NoAlert

\* the same for the batches that hold at least one result
AllFailStillRevealsNonEmpty ==
    \A s \in Searches :
        (search[s].rec = "ok" /\ AllFailed(s) /\ search[s].join # "timer"
           /\ search[s].results # << >>) =>
            /\ search[s].join = "done"
            /\ \A i \in DOMAIN search[s].results : aiSummary[search[s].results[i]] = Null
            /\ (\A t \in Searches : search[t].rec # "failed") => lastAlert = NoAlert

\* C3: whenever results are visible they are the results of a search whose
\* every summary fetch and image probe has settled and whose settling timer,
\* set after the last of them, has fired; during the delay and while a task
\* of the batch is pending the list of that batch is not visible.
C3_RevealAfterSettle ==
    /\ restaurants # << >> =>
          \E s \in Searches :
              /\ restaurants = search[s].results
              /\ search[s].join = "done"
    /\ \A s \in Searches :
          search[s].join = "done" =>
              /\ search[s].rec = "ok"
              /\ NoTaskPending(s)

C3_Witness ==
    /\ Len(restaurants) = 2
    /\ \E s \in Searches : restaurants = search[s].results /\ search[s].join = "done"
    /\ \E i \in DOMAIN restaurants : imgTask[restaurants[i]] = "false"
    /\ \E i \in DOMAIN restaurants : sumTask[restaurants[i]] = "ok"

\* C4: every restaurant of the visible list carries an aiSummary exactly when
\* its own summary fetch succeeded, and then it is the summary fetched for it.
C4_SummaryIffOwnFetch ==
    \A i \in DOMAIN restaurants :
        LET r == restaurants[i] IN
            /\ aiSummary[r] # Null <=> sumTask[r] = "ok"
            /\ sumTask[r] = "ok" => aiSummary[r] = Some(SummaryOf(r))

C4_Witness ==
    /\ Len(restaurants) = 2
    /\ sumTask[restaurants[1]] = "failed" /\ aiSummary[restaurants[1]] = Null
    /\ sumTask[restaurants[2]] = "ok" /\ aiSummary[restaurants[2]] = Some(SummaryOf(restaurants[2]))

\* C5: the step in which the recommendation fetch of a search fails dispatches
\* no summary fetch and no image probe, leaves the visible list empty,
\* App.loading false and the search's rotation timer stopped, and alerts the
\* backend's error detail when there is a (non-empty) one and the generic
\* fallback message otherwise; a failed search stays as that step left it.
C5_FailureIsTerminal ==
    [][ \A s \in Searches :
          /\ (search[s].rec = "pending" /\ search'[s].rec = "failed") =>
                /\ restaurants' = << >>
                /\ ~loading'
                /\ ~search'[s].interval
                /\ photoUrl' = photoUrl /\ sumTask' = sumTask /\ imgTask' = imgTask
                /\ lastAlert' = "Error: " \o (IF lastError' \in { NoDetail, "" }
                                               THEN MsgFallback ELSE lastError')
          /\ search[s].rec = "failed" =>
                /\ search'[s] = search[s]
                /\ search[s].results = << >> /\ search[s].join = "none"
      ]_vars

C5_Witness ==
    /\ \E s \in Searches : search[s].rec = "failed" /\ ~search[s].interval
    /\ lastError = "No pizza places found nearby"
    /\ lastAlert = "Error: No pizza places found nearby"
    /\ restaurants = << >> /\ ~loading

(* ========================= the search triggers ========================= *)
\* search s is in flight: started, and neither revealed nor failed (a search
\* that returned no result has nothing left to run)
InFlight(s) ==
    \/ search[s].rec = "pending"
    \/ search[s].join \in { "waiting", "timer" }

\* C6: at most one search sequence is in flight: none is started by a form
\* submission, a prediction selection, a geolocation search or a reroll while
\* another one is between its start and its reveal or failure.
C6_SingleSearchInFlight ==
    Cardinality({ s \in Searches : InFlight(s) }) <= 1

(* ====================== the autocomplete controller ==================== *)
\* C7: a call of fetchPredictions with a query that is empty or shorter than
\* 3 characters dispatches no autocomplete request and leaves the prediction
\* list empty and the dropdown hidden.
C7_ShortQueryClears ==
    [][ (callParity' # callParity /\ Len(lastQuery'[1]) < 3) =>
            /\ acReqs' = acReqs /\ nFetch' = nFetch
            /\ predictions' = << >>
            /\ ~showPredictions'
      ]_vars

C7_Witness ==
    /\ lastQuery # Null /\ Len(lastQuery[1]) = 2
    /\ nFetch = 1 /\ acReqs = { }
    /\ predictions = << >> /\ ~showPredictions

\* C8: while the last query submitted to fetchPredictions is shorter than 3
\* characters the prediction list is empty and the dropdown shows no
\* prediction (the banner of gm_authFailure apart), whatever request
\* dispatched earlier completes meanwhile.
C8_ShortQuerySuppresses ==
    (lastQuery # Null /\ Len(lastQuery[1]) < 3) =>
        /\ predictions = << >>
        /\ showPredictions => errorMessage # ""

\* C9: every call of fetchPredictions by the debounced subscription carries
\* the value of the last keystroke (the values keyed before it in the same
\* burst are never submitted) and differs from the value of the call before.
C9_DebounceDistinct ==
    [][ callParity' # callParity =>
            /\ lastQuery' = Some(keyed)
            /\ lastQuery' # lastQuery
      ]_vars

C9_Witness ==
    /\ callParity = 1 /\ nFetch = 1
    /\ debPending = Null
    /\ Len(keyed) = 3 /\ lastQuery = Some(keyed)

\* C10: the completion of an autocomplete request replaces the displayed
\* list by that request's own answer (or by the empty list), whether or not a
\* request dispatched after it has completed already: no sequence guard.
C10_LastWriteWins ==
    [][ \A req \in acReqs :
          req \notin acReqs' =>
              \/ predictions' = << >>
              \/ \E n \in 1..MaxPredictions :
                    /\ predictions' = Answer(req, n)
                    /\ showPredictions' /\ activePredictionIndex' = -1
      ]_vars

\* the list of an earlier request is shown although a later request, for
\* another query and the last one submitted, has completed before it
C10_Witness ==
    /\ predictions # << >>
    /\ LET a == predictions[1].place_id[1]
           d == predictions[1].description
       IN /\ a < nFetch
          /\ \A req \in acReqs : req.id # nFetch
          /\ \A i \in DOMAIN Suffixes : d # lastQuery[1] \o Suffixes[i]
    /\ showPredictions

\* C11: the step in which an autocomplete request completes successfully
\* leaves the prediction list equal to the list returned for that request,
\* the dropdown visible exactly when that list has an entry, and the active
\* index at -1.
C11_NextPopulates ==
    [][ \A req \in acReqs :
          (req \notin acReqs' /\ lastOutcome' = "next") =>
              /\ \E n \in 0..MaxPredictions : predictions' = Answer(req, n)
              /\ showPredictions' <=> Len(predictions') >= 1
              /\ activePredictionIndex' = -1
      ]_vars

\* a successful completion with an empty list hid a dropdown that was open
C11_Witness ==
    /\ lastOutcome = "next"
    /\ lastKey = Some("ArrowDown")
    /\ nFetch >= 2
    /\ showPredictions
    /\ Len(predictions) >= 1
    /\ activePredictionIndex = -1

\* C12: the step in which an autocomplete request fails leaves the prediction
\* list empty and the dropdown hidden, the error banner and the alert as they
\* were.
C12_ErrorHides ==
    [][ \A req \in acReqs :
          (req \notin acReqs' /\ lastOutcome' = "error") =>
              /\ predictions' = << >>
              /\ ~showPredictions'
              /\ errorMessage' = errorMessage /\ lastAlert' = lastAlert
      ]_vars

\* C13: ArrowDown and ArrowUp cycle through the open list: from index i in
\* 0..n-1 ArrowDown gives (i+1) mod n and ArrowUp gives (i-1) mod n, from -1
\* ArrowDown gives 0 (so two presses give 1 when n >= 2); with the dropdown
\* hidden or the list empty the keys change nothing.
C13_ArrowsCycle ==
    [][ (keyParity' # keyParity /\ lastKey' \in { Some("ArrowDown"), Some("ArrowUp") }) =>
          LET n    == Len(predictions)
              i    == activePredictionIndex
              down == lastKey' = Some("ArrowDown")
          IN /\ (showPredictions /\ n >= 1 /\ i \in 0..(n - 1)) =>
                    activePredictionIndex' = IF down THEN (i + 1) % n ELSE (i - 1) % n
             /\ (showPredictions /\ n >= 1 /\ i = -1 /\ down) =>
                    activePredictionIndex' = 0
             /\ (~showPredictions \/ n = 0) => activePredictionIndex' = i
             /\ predictions' = predictions
             /\ showPredictions' = showPredictions
             /\ address' = address
             /\ placeReqs' = placeReqs
             /\ UNCHANGED appVars ]_vars

C13_Witness ==
    /\ lastKey = Some("ArrowDown")
    /\ showPredictions
    /\ Len(predictions) >= 2
    /\ activePredictionIndex = 1

\* C14: while the dropdown is visible, Enter with an active index i >= 0 selects
\* predictions[i], Enter with index -1 selects nothing and dispatches no
\* request, and Escape hides the dropdown leaving text, list and index alone.
C14_EnterEscape ==
    [][ (keyParity' # keyParity /\ showPredictions) =>
          LET n == Len(predictions)
              i == activePredictionIndex
          IN /\ (lastKey' = Some("Enter") /\ i >= 0 /\ i < n) =>
                    /\ address' = predictions[i + 1].description
                    /\ \E r \in placeReqs' \ placeReqs :
                          r.place_id = predictions[i + 1].place_id
             /\ (lastKey' = Some("Enter") /\ i = -1) =>
                    /\ placeReqs' = placeReqs
                    /\ address' = address
                    /\ search' = search
             /\ lastKey' = Some("Escape") =>
                    /\ ~showPredictions'
                    /\ address' = address
                    /\ predictions' = predictions
                    /\ activePredictionIndex' = i ]_vars

\* C15: selecting a prediction puts its description in the input, hides the
\* dropdown and dispatches exactly one place-details request; a successful
\* answer carrying a latitude and a longitude emits a search request with them,
\* a failed one raises the alert and emits nothing.
C15_SelectionResolves ==
    [][ /\ acts' # acts =>
              /\ \E k \in 1..Len(predictions) : address' = predictions[k].description
              /\ ~showPredictions'
              /\ placeReqs \subseteq placeReqs'
              /\ Cardinality(placeReqs') = Cardinality(placeReqs) + 1
        /\ \A req \in placeReqs :
              req \notin placeReqs' =>
                 IF sessionToken' # sessionToken
                 THEN LET place == selectedPlace'[1]
                      IN place.location # Null =>
                            /\ Len(search') = Len(search) + 1
                            /\ lastSearchRequest'[1].latitude =
                                  Some(place.location[1].latitude)
                            /\ lastSearchRequest'[1].longitude =
                                  Some(place.location[1].longitude)
                 ELSE /\ lastAlert' = MsgPlaceFailed
                      /\ search' = search ]_vars

\* C16: the session token changes exactly when a place-details request
\* succeeds, the new token differs from the old one, a failed request leaves it
\* alone, and every autocomplete request carries the token current when it
\* was dispatched.
C16_TokenPerResolution ==
    [][ /\ \A req \in placeReqs :
              req \notin placeReqs' =>
                 IF Len(search') > Len(search) \/ lastAlert' = MsgNoCoordinates
                 THEN sessionToken' # sessionToken
                 ELSE sessionToken' = sessionToken
        /\ placeReqs \subseteq placeReqs' => sessionToken' = sessionToken
        /\ \A r \in acReqs' \ acReqs : r.token = sessionToken ]_vars

C16_Witness ==
    /\ sessionToken >= 1
    /\ \E r \in acReqs : r.token = sessionToken
    /\ lastAlert = MsgPlaceFailed

\* the low-accuracy attempts in flight
LowAttempts(reqs) ==
    reqs[LowAccuracy(1)] + reqs[LowAccuracy(2)] + reqs[LowAccuracy(3)]

C18_LocationSearch ==
    [][ \A attempt \in GeoAttempts :
          (locReqs'[attempt] < locReqs[attempt]
             /\ LowAttempts(locReqs') <= LowAttempts(locReqs)) =>
              IF Len(search') > Len(search)
              THEN /\ Len(search') = Len(search) + 1
                   /\ search'[Len(search')].req = lastSearchRequest'
                   /\ lastSearchRequest'[1].address = "Current Location"
                   /\ \E pos \in Positions :
                         /\ lastSearchRequest'[1].latitude = Some(pos.latitude)
                         /\ lastSearchRequest'[1].longitude = Some(pos.longitude)
                   /\ lastSearchRequest'[1].preferences = ThisPreferences
              ELSE /\ search' = search
                   /\ lastSearchRequest' = lastSearchRequest
                   /\ \E c \in GeoErrorCodes : lastAlert' = GeoMessage(c)
                   /\ ~scLoading' ]_vars

C18_Witness ==
    /\ lastSearchRequest # Null
    /\ lastSearchRequest[1].address = "Current Location"
    /\ Len(search) = 1
    /\ \A attempt \in GeoAttempts : locReqs[attempt] = 0
    /\ lastAlert = GeoMessage(2)

\* C19: validateDistance leaves preferences.maxDistance in [1, 50] whatever
\* it held: a missing value, zero or a value below 1 becomes 1, a value above
\* 50 becomes 50, a value in [1, 50] stays, and validating again changes nothing.
C19_DistanceClamped ==
    [][ validations' # validations =>
          /\ maxDistance' # Null
          /\ maxDistance'[1] \in 1..50
          /\ (maxDistance = Null \/ maxDistance[1] < 1) => maxDistance' = Some(1)
          /\ (maxDistance # Null /\ maxDistance[1] > 50) => maxDistance' = Some(50)
          /\ (maxDistance # Null /\ maxDistance[1] \in 1..50) => maxDistance' = maxDistance
          /\ validateDistance(maxDistance') = maxDistance' ]_vars

C19_Witness ==
    /\ validations = 1
    /\ maxDistance = Some(50)

\* C20: selecting a restaurant that carries an aiSummary shows that summary and
\* issues no request, and no summary request is issued for a restaurant for
\* which an earlier request of the detail view has returned a summary.
C20_CacheOnce ==
    [][ /\ (selections' # selections /\ aiSummary[selectedRestaurant'[1]] # Null) =>
              /\ rAiSummary' = aiSummary[selectedRestaurant'[1]]
              /\ summaryReqs' = summaryReqs
        /\ Len(summaryReqs') > Len(summaryReqs) =>
              \A k \in DOMAIN summaryReqs :
                  ~ /\ summaryReqs[k].state = "ok"
                    /\ summaryReqs[k].restaurantId =
                          summaryReqs'[Len(summaryReqs')].restaurantId ]_vars

\* C21: closing the detail view leaves selectedRestaurant null, the displayed
\* summary null and loadingSummary false, also with an on-demand summary fetch
\* in flight, and leaves the aiSummary of every restaurant as it was.
C21_CloseClears ==
    [][ (selectedRestaurant # Null /\ selectedRestaurant' = Null) =>
          /\ rAiSummary' = Null
          /\ ~loadingSummary'
          /\ aiSummary' = aiSummary ]_vars

\* C22: a reroll click emits the retained last request exactly once when a
\* last request is retained and the presenter's in-progress flag is clear,
\* setting the flag and its timer; any other reroll click emits nothing; the
\* flag is cleared by that timer only, and while it is set a timer is pending.
C22_RerollOncePerClick ==
    [][ /\ rerollClicks' # rerollClicks =>
              IF lastSearchRequest # Null /\ ~rLoading
              THEN /\ Len(search') = Len(search) + 1
                   /\ search'[Len(search')].req = lastSearchRequest
                   /\ lastSearchRequest' = lastSearchRequest
                   /\ rLoading'
                   /\ rerollTimers' = rerollTimers + 1
              ELSE /\ search' = search
                   /\ lastSearchRequest' = lastSearchRequest
                   /\ rLoading' = rLoading
                   /\ rerollTimers' = rerollTimers
        /\ (rLoading /\ ~rLoading') => rerollTimers' = rerollTimers - 1
        /\ rLoading' => rerollTimers' >= 1 ]_vars

C22_Witness ==
    /\ acts = 3
    /\ rerollClicks = 0
    /\ Len(search) = 3
    /\ rLoading
    /\ rerollTimers = 1

\* C23: the step that starts a search retains its request as lastSearchRequest
\* and empties the visible list; no other step changes lastSearchRequest; and
\* the visible list is empty from the start of the most recent search until
\* the reveal of that search.
C23_RetainAndClear ==
    [][ /\ Len(search') > Len(search) =>
              /\ lastSearchRequest' = search'[Len(search')].req
              /\ restaurants' = << >>
        /\ Len(search') = Len(search) => lastSearchRequest' = lastSearchRequest
        /\ restaurants' # << >> => search'[Len(search')].join = "done" ]_vars

\* C24: once the recommendation fetch of a search has succeeded, the rotation
\* timer of that search no longer changes loadingMessage, and from the
\* completion of its fan-in to its reveal the message is 'Almost ready...'.
C24_NoRotationAfterEnrichment ==
    [][ /\ \A s \in DOMAIN search :
              (search[s].rec = "ok" /\ search'[s].index # search[s].index
                 /\ search'[s].interval) =>
                   loadingMessage' = loadingMessage
        /\ \A s \in DOMAIN search' :
              search'[s].join = "timer" => loadingMessage' = MsgAlmost ]_vars

\* C25: what a search reveals is fixed by the outcomes of its enrichment tasks,
\* not by their order: a completing task changes the fields of its own
\* restaurant only, the result list keeps the order of the answer, and at the
\* join and at the reveal each restaurant carries the summary fetched for it
\* exactly when its own summary fetch succeeded.
C25_OrderIndependent ==
    [][ /\ \A r \in DOMAIN aiSummary :
              (aiSummary'[r] # aiSummary[r] \/ sumTask'[r] # sumTask[r]
                 \/ imgTask'[r] # imgTask[r]) =>
                   \A q \in DOMAIN aiSummary \ { r } :
                       /\ aiSummary'[q] = aiSummary[q]
                       /\ sumTask'[q] = sumTask[q]
                       /\ imgTask'[q] = imgTask[q]
        /\ \A s \in DOMAIN search :
              /\ search[s].rec = "ok" => search'[s].results = search[s].results
              /\ (search[s].join = "timer" /\ search'[s].join = "done") =>
                    restaurants' = search[s].results
        /\ \A s \in DOMAIN search' :
              search'[s].join \in { "timer", "done" } =>
                  \A i \in DOMAIN search'[s].results :
                      aiSummary'[search'[s].results[i]] =
                          IF sumTask'[search'[s].results[i]] = "ok"
                          THEN Some(SummaryOf(search'[s].results[i]))
                          ELSE Null ]_vars

C25_Witness ==
    /\ Len(restaurants) = 2
    /\ \A i \in DOMAIN restaurants :
          /\ photoUrl[restaurants[i]]
          /\ sumTask[restaurants[i]] = "ok"
    /\ imgTask[restaurants[1]] = "false"
    /\ imgTask[restaurants[2]] = "true"

\* C26: the step in which the recommendation fetch of a search succeeds with N
\* results creates N summary requests and N image probes, one of each per
\* result; the probe of a result without a photoUrl is already satisfied, the
\* others and all summary requests are pending; and the join fires in the step
\* that settles the last of these 2N tasks, not before.
C26_TwoTasksPerResult ==
    [][ \A s \in DOMAIN search :
          /\ (search[s].rec = "pending" /\ search'[s].rec = "ok") =>
                LET res == search'[s].results
                    n   == Len(res)
                IN /\ Len(sumTask') = Len(sumTask) + n
                   /\ Len(imgTask') = Len(imgTask) + n
                   /\ \A i, j \in 1..n : res[i] = res[j] => i = j
                   /\ \A i \in 1..n :
                         /\ res[i] \notin DOMAIN sumTask
                         /\ sumTask'[res[i]] = "pending"
                         /\ imgTask'[res[i]] =
                               IF photoUrl'[res[i]] THEN "pending" ELSE "true"
                   /\ \A r \in DOMAIN sumTask :
                         sumTask'[r] = sumTask[r] /\ imgTask'[r] = imgTask[r]
          /\ search'[s].join = "waiting" =>
                \E i \in DOMAIN search'[s].results :
                    \/ sumTask'[search'[s].results[i]] = "pending"
                    \/ imgTask'[search'[s].results[i]] = "pending"
          /\ (search[s].join = "waiting" /\ search'[s].join = "timer") =>
                \A i \in DOMAIN search'[s].results :
                    /\ sumTask'[search'[s].results[i]] # "pending"
                    /\ imgTask'[search'[s].results[i]] # "pending" ]_vars

C26_Witness ==
    \E s \in DOMAIN search :
        /\ search[s].join = "timer"
        /\ Len(search[s].results) = 2
        /\ photoUrl[search[s].results[1]]
        /\ ~photoUrl[search[s].results[2]]
        /\ imgTask[search[s].results[1]] = "true"
        /\ sumTask[search[s].results[2]] = "failed"

\* C27: once the recommendation fetch of a search has completed or failed and
\* every summary request and image probe of the search has settled, the
\* rotation timer the search started is no longer running, for any number of
\* results, zero included.
C27_IntervalStopped ==
    \A s \in Searches :
        (search[s].rec # "pending" /\ NoTaskPending(s)) => ~search[s].interval

\* C28: whenever SearchComponent.loading is true it eventually becomes false
\* again, whichever of useCurrentLocation, searchByAddress or a prediction
\* selection set it and whether the geolocation, geocoding or place-details
\* step succeeds or fails, provided the steps settle and the timers run.
C28_LoadingReset == scLoading ~> ~scLoading

C28_Witness ==
    /\ ~scLoading
    /\ lastAlert = MsgGeocodeFailed
    /\ Len(search) >= 1
    /\ unlockTimers = 0
    /\ geocodeReqs = 0

\* C29: whenever the prediction list is non-empty the active index is one of
\* -1..(length-1), so the prediction Enter selects exists.
C29_IndexInRange ==
    predictions # << >> =>
        activePredictionIndex \in (-1)..(Len(predictions) - 1)

C29_Witness ==
    /\ lastOutcome = "next"
    /\ nFetch = 2
    /\ Len(predictions) = 1
    /\ activePredictionIndex = 0
    /\ lastKey = Some("ArrowUp")

\* C30: with the dropdown showing n >= 1 predictions and no prediction active,
\* ArrowUp makes the last prediction (index n-1) active.
C30_ArrowUpFromNone ==
    [][ (keyParity' # keyParity /\ lastKey' = Some("ArrowUp")
           /\ showPredictions /\ Len(predictions) >= 1
           /\ activePredictionIndex = -1) =>
              activePredictionIndex' = Len(predictions) - 1 ]_vars

\* C31: the summary displayed in the detail view is a summary of the selected
\* restaurant, and a response of an on-demand summary request for a restaurant
\* that is not the selected one (the view was closed, or another restaurant
\* was selected meanwhile) changes neither the displayed summary nor
\* loadingSummary.
C31_SummaryOfSelected ==
    [][ /\ rAiSummary' # Null =>
              /\ selectedRestaurant' # Null
              /\ rAiSummary'[1].restaurantId = selectedRestaurant'[1]
        /\ \A k \in DOMAIN summaryReqs :
              ( /\ summaryReqs[k].state = "pending"
                /\ summaryReqs'[k].state # "pending"
                /\ selectedRestaurant # Some(summaryReqs[k].restaurantId) ) =>
                    /\ rAiSummary' = rAiSummary
                    /\ loadingSummary' = loadingSummary ]_vars

\* C32: a non-empty visible list is the result list of the most recently
\* started search, and the reveal or the failure of a search that is not the
\* most recently started one changes neither the visible list nor
\* App.loading.
C32_LatestSearchWins ==
    [][ /\ restaurants' # << >> =>
              restaurants' = search'[Len(search')].results
        /\ \A s \in DOMAIN search :
              ( /\ s < Len(search)
                /\ \/ search[s].join = "timer" /\ search'[s].join = "done"
                   \/ search[s].rec = "pending" /\ search'[s].rec = "failed" ) =>
                    /\ restaurants' = restaurants
                    /\ loading' = loading ]_vars

\* C33: once a prediction has been selected and nothing has been typed since,
\* the end of a debounce quiet period and the completion of an autocomplete
\* request neither show the dropdown again nor replace the prediction list.
C33_StaysHiddenAfterSelection ==
    [][ ( /\ acts > 0
          /\ keyed' = keyed
          /\ \/ debPending # Null /\ debPending' = Null
             \/ acReqs' # acReqs /\ acReqs' \subseteq acReqs ) =>
              /\ showPredictions' => showPredictions
              /\ predictions' = predictions ]_vars

\* C34: every search request the form emits, after a prediction selection, a
\* position fix or a geocoded address, carries the preferences of the form
\* with maxDistance a number from 1 to 50 at the time of the emission.
C34_EmittedDistanceInRange ==
    [][ ( Len(search') > Len(search) /\ rerollClicks' = rerollClicks ) =>
          /\ search'[Len(search')].req[1].preferences = ThisPreferences
          /\ maxDistance' # Null
          /\ maxDistance'[1] \in MinDistance..MaxDistance ]_vars

\* C35: a place-details answer that carries a latitude and a longitude, a
\* zero one included, makes handlePlaceSelection emit a search request with
\* these coordinates and raise no alert; the answer raises the
\* missing-coordinates alert and emits nothing only when it carries no
\* coordinates.
C35_ZeroCoordinateSearches ==
    [][ ( sessionToken' # sessionToken /\ selectedPlace' # Null ) =>
          LET place == selectedPlace'[1]
          IN IF place.location # Null
             THEN /\ Len(search') = Len(search) + 1
                  /\ lastSearchRequest'[1].latitude = Some(place.location[1].latitude)
                  /\ lastSearchRequest'[1].longitude = Some(place.location[1].longitude)
                  /\ lastAlert' = lastAlert
                  /\ scLoading'
             ELSE /\ search' = search
                  /\ lastAlert' = MsgNoCoordinates ]_vars
====
